---- MODULE Spec2Model ----
(***************************************************************************)
(* The IDE installers of umake/frameworks/ide.py (Eclipse, the JetBrains   *)
(* family, Arduino, NetBeans) as one installation session: the resolver    *)
(* continuations of ide.py, driven by the BaseInstaller pipeline and the   *)
(* DownloadCenter they call.                                               *)
(***************************************************************************)
EXTENDS Integers, Sequences, FiniteSets, TLC

(* ---------------------------------------------------------------------- *)
(* Bounds of the model                                                     *)
(* ---------------------------------------------------------------------- *)

\* lines of a fetched text body (checksum file, checksums page, js file)
MaxLines == 2
\* elements (anchors, buttons) of a fetched HTML page
MaxElems == 2

SeqsUpTo(S, n) == UNION {[1..k -> S] : k \in 0..n}

(* ---------------------------------------------------------------------- *)
(* Static per-tool definitions                                             *)
(* ---------------------------------------------------------------------- *)

JetBrainsTools == {"PyCharm", "PyCharm Educational", "PyCharm Professional",
                   "Idea", "Idea Ultimate", "RubyMine", "WebStorm", "PhpStorm"}

Tools == {"Eclipse", "Arduino", "Netbeans"} \cup JetBrainsTools

\* platform.machine()
Machines == {"i686", "x86_64", "armv7l"}

\* class attribute `executable` of each JetBrains installer
executable(t) ==
    CASE t \in {"PyCharm", "PyCharm Educational", "PyCharm Professional"} -> "pycharm.sh"
      [] t \in {"Idea", "Idea Ultimate"} -> "idea.sh"
      [] t = "RubyMine" -> "rubymine.sh"
      [] t = "WebStorm" -> "webstorm.sh"
      [] t = "PhpStorm" -> "phpstorm.sh"
      [] OTHER -> ""

\* a required path that leaves the bin directory out
BinPathWithoutBin(exe) == <<exe>>

\* os.path.join("bin", self.executable)
BinPath(exe) == <<"bin", exe>>

\* a list of required files that names a file no archive unpacks
required_files_path_with_jre(t) == {<<"jre", "bin", "java">>}

\* required_files_path handed to BaseInstaller.__init__ by each installer
required_files_path(t) ==
    CASE t = "Eclipse" -> {<<"eclipse">>}
      [] t \in JetBrainsTools ->
            IF executable(t) # "" THEN {BinPath(executable(t))} ELSE {}
      [] OTHER -> {}

\* download_page handed to BaseInstaller.__init__ (Eclipse passes None)
download_page(t) ==
    CASE t = "Eclipse" -> <<>>
      [] t = "Arduino" -> <<"http://www.arduino.cc/en/Main/Software">>
      [] t = "Netbeans" -> <<"https://netbeans.org/downloads/zip.html">>
      [] OTHER -> <<"https://www.jetbrains.com/download_thanks.jsp", t>>

\* the checksum algorithm each resolver names in its DownloadItem
NoChecksum == [type |-> "none", digest |-> ""]
Checksum(type, digest) == [type |-> type, digest |-> digest]
DownloadItem(url, checksum, cookies, ignore_encoding) ==
    [url |-> url, checksum |-> checksum, cookies |-> cookies,
     ignore_encoding |-> ignore_encoding]

(* ---------------------------------------------------------------------- *)
(* Fetched bodies                                                          *)
(* ---------------------------------------------------------------------- *)

Digests == {"d1", "d2"}

\* str.split(): the whitespace-delimited tokens of a body, across its lines
RECURSIVE Split(_)
Split(body) == IF body = <<>> THEN <<>> ELSE Head(body) \o Split(Tail(body))

\* the first token of the first non-empty line of a body, <<>> when there is
\* none (used only to record what a continuation was handed)
FirstWord(body) ==
    LET ne == {i \in 1..Len(body) : body[i] # <<>>}
    IN  IF ne = {} THEN <<>>
        ELSE <<body[CHOOSE i \in ne : \A j \in ne : i <= j][1]>>

\* a line of a one-file checksum file: empty, a digest, or "digest  name"
ChecksumFileLines ==
    {<<>>} \cup {<<d>> : d \in Digests} \cup {<<d, "archive.tar.gz">> : d \in Digests}
ChecksumFileBodies == SeqsUpTo(ChecksumFileLines, MaxLines)

\* a DownloadResult of a page fetch: an error (no buffer) or a body
PageResults(Bodies) ==
    {[error |-> TRUE, body |-> <<>>]} \cup {[error |-> FALSE, body |-> b] : b \in Bodies}

(* ---------------------------------------------------------------------- *)
(* State                                                                   *)
(* ---------------------------------------------------------------------- *)

VARIABLES
    tool,               \* the installer of this session
    arch,               \* platform.machine()
    fs,                 \* paths present at the target path ("." is the directory)
    stage,              \* stage of the session
    pc,                 \* the continuation the session waits for
    status,             \* exit status: -1 while running
    log,                \* logger.error diagnostics of the resolver, in order
    raised,             \* exception that left a continuation uncaught
    fetched,            \* URLs handed to DownloadCenter(download=False), in order
    pending,            \* URLs of the batch in flight
    resolved,           \* URLs of the batch in flight that have a result or an error
    on_done_calls,      \* how often the continuation of the batch in flight was called
    download_requests,  \* self.download_requests
    install_started,    \* calls of start_download_and_install
    extracted,          \* the extraction collaborator was invoked
    launchers,          \* desktop files written by create_launcher
    os_env,             \* os.geteuid(), the real uid, SUDO_UID (-1: unset), USER
    ids,                \* effective uid and gid of each process
    response,           \* final_url and cookies of the download page the archive
                        \* DownloadItem was built from (<<>>: none yet)
    dialout,            \* members of the group "dialout"
    bits,               \* Arduino: self.bits
    current_user,       \* Arduino: self._current_user
    was_in_arduino_group,
    after_installed,    \* the previous session at this path ended as Installed
    reused,             \* the installer object has been set up before
    scraped_download_url,
    scraped_checksum_url,
    helper,             \* the submissions of _add_to_group, in order: user, group,
                        \* result, and the stage and the count of started
                        \* downloads of the session at that time
    notices,            \* messages enqueued by UI.delayed_display
    version,            \* NetBeans: self.version (<<>>: not set)
    version_download_page,
    md5_url,            \* Eclipse.download_provider_page: md5_url
    download_url,       \* BaseJetBrains.get_metadata_and_check_license: download_url
    obs                 \* what the continuations were handed (observations)

ctl == <<stage, pc, status, log, raised>>
net == <<fetched, pending, resolved, on_done_calls>>
envv == <<tool, arch, os_env, bits, current_user, was_in_arduino_group, after_installed,
          reused>>
inst == <<download_requests, install_started>>
ardu == <<scraped_download_url, scraped_checksum_url, dialout, helper, ids, response>>
netb == <<version, version_download_page>>
post == <<extracted, launchers, notices>>
vars == <<tool, arch, fs, stage, pc, status, log, raised, fetched, pending, resolved,
          on_done_calls,
          download_requests, install_started, extracted, launchers, os_env, ids, response,
          dialout,
          bits, current_user, was_in_arduino_group, after_installed, reused,
          scraped_download_url,
          scraped_checksum_url, helper, notices, version, version_download_page,
          md5_url, download_url, obs>>

\* err: a continuation was handed a result with a transport error;
\* bad: a continuation was handed a result with an error or an empty body;
\* nested: the first word of the body of the nested checksum fetch;
\* parsed: per parsing stage, what was looked for (what), how many elements of
\*         the page matched (n), the first of them in page order and, for the
\*         stages that loop over lines, the last;
\* archive: the result of each archive download (error, digest of the bytes);
\* unpacked: the outcome of the extraction ("none" before it);
\* launched: post_install of the session has run;
\* invoker_member: the user who ran the installer was a member of the Arduino
\*         group when the installer was constructed;
\* ran:    the continuations of ide.py that ran, each with the context it ran on
NoObs == [err |-> FALSE, bad |-> FALSE, nested |-> <<>>, parsed |-> <<>>, archive |-> <<>>,
          unpacked |-> "none", launched |-> FALSE, invoker_member |-> FALSE, ran |-> {},
          installed |-> {}]

\* the target path before the session: absent, an empty directory, a directory
\* that holds an eclipse binary, or one that holds the tool's bin/<executable>
InitialFs(t) ==
    {{}, {<<".">>}, {<<".">>, <<"eclipse">>}} \cup
    (IF t \in JetBrainsTools THEN {{<<".">>, <<"bin", executable(t)>>}} ELSE {})

\* pwd.getpwuid(uid).pw_name
pw_name(uid) == IF uid = 0 THEN "root" ELSE "alice"

\* how the installer is started: by a user, through sudo, by root, and through
\* sudo with the effective uid switched back to the caller (uid: the real uid)
Environments ==
    {[euid |-> 1000, uid |-> 1000, SUDO_UID |-> -1, USER |-> "alice"],
     [euid |-> 0, uid |-> 0, SUDO_UID |-> 1000, USER |-> "root"],
     [euid |-> 0, uid |-> 0, SUDO_UID |-> -1, USER |-> "root"],
     [euid |-> 1000, uid |-> 0, SUDO_UID |-> 1000, USER |-> "root"]}

\* the processes of a session: the installer and the worker of its executor
Processes == {"main", "worker"}

\* the effective ids of the processes when the session starts (the primary
\* group of a user has the id of the user; a worker inherits its ids)
InitialIds(e) == [p \in Processes |-> [euid |-> e.euid, egid |-> e.euid]]

\* the user who ran the installer: the user of the process, or the user sudo
\* was called by
InvokingUser(e) ==
    IF e.SUDO_UID # -1 THEN pw_name(e.SUDO_UID)
    ELSE IF e.euid # 0 THEN e.USER ELSE "root"

\* Arduino.__init__: self._current_user
ArduinoCurrentUser(e) == pw_name(IF e.SUDO_UID = -1 THEN 0 ELSE e.SUDO_UID)

\* Arduino.__init__: self.bits
ArduinoBits(machine) == IF machine = "i686" THEN "32" ELSE "64"

\* self.version of a session whose version is not resolved yet
NoVersion == <<>>

Init ==
    /\ tool \in Tools
    /\ arch \in Machines
    /\ IF tool = "Arduino"
       THEN /\ os_env \in Environments
            /\ dialout \in {{}, {"alice"}, {"root"}}
            /\ bits = ArduinoBits(arch)
            /\ current_user = ArduinoCurrentUser(os_env)
            /\ was_in_arduino_group = (current_user \in dialout)
       ELSE /\ os_env = [euid |-> 1000, uid |-> 1000, SUDO_UID |-> -1, USER |-> "alice"]
            /\ dialout = {}
            /\ bits = ""
            /\ current_user = ""
            /\ was_in_arduino_group = FALSE
    /\ after_installed = FALSE
    /\ reused = FALSE
    /\ scraped_download_url = <<>>
    /\ scraped_checksum_url = <<>>
    /\ helper = <<>>
    /\ notices = <<>>
    /\ version = NoVersion
    /\ version_download_page = <<>>
    /\ fs \in InitialFs(tool)
    /\ stage = "Idle"
    /\ pc = "setup"
    /\ status = -1
    /\ log = <<>>
    /\ raised = "none"
    /\ fetched = <<>>
    /\ ids = InitialIds(os_env)
    /\ response = <<>>
    /\ pending = <<>>
    /\ resolved = {}
    /\ on_done_calls = 0
    /\ download_requests = <<>>
    /\ install_started = 0
    /\ extracted = FALSE
    /\ launchers = {}
    /\ md5_url = <<>>
    /\ download_url = <<>>
    /\ obs = [NoObs EXCEPT !.invoker_member =
                               (tool = "Arduino" /\ InvokingUser(os_env) \in dialout)]

(* ---------------------------------------------------------------------- *)
(* Exits of a continuation                                                 *)
(* ---------------------------------------------------------------------- *)

\* a result is never taken for an error
error_ignored(res) == FALSE

\* `if res.error:` of a continuation
has_error(res) == res.error

\* logger.error(msg) ...; UI.return_main_screen(status_code=1)
return_main_screen(msgs) ==
    /\ stage' = "Failed"
    /\ pc' = "end"
    /\ status' = 1
    /\ log' = log \o msgs
    /\ raised' = raised

\* an exception no statement of the continuation catches
Raise(exc) ==
    /\ raised' = exc
    /\ pc' = "dead"
    /\ UNCHANGED <<stage, status, log>>

Range(s) == {s[i] : i \in 1..Len(s)}

\* a batch is complete as soon as one of its items is
one_resolved(done, urls) == done # {}

\* a batch is complete when every one of its items has a result or an error
all_resolved(done, urls) == done = Range(urls)

\* the continuation of the batch in flight has been called and not yet run
on_done_called == on_done_calls > 0

\* one item of the batch in flight completes, with a result or an error (which
\* of the two, and the body, is read by the continuation); the item that
\* completes the batch calls the continuation
DownloadCenter_item_done ==
    /\ \E url \in Range(pending) \ resolved :
        /\ resolved' = resolved \cup {url}
        /\ on_done_calls' = IF all_resolved(resolved', pending)
                            THEN on_done_calls + 1 ELSE on_done_calls
    /\ UNCHANGED <<envv, fs, ctl, fetched, pending, inst, post, ardu, netb, md5_url,
                   download_url, obs>>

\* the continuations decorated with @MainLoop.in_mainloop_thread
in_mainloop_thread ==
    {"Eclipse.done",
     "BaseJetBrains.get_metadata_and_check_license",
     "Arduino.get_metadata_and_check_license",
     "Arduino.prepare_to_download_archive",
     "BaseNetBeans.get_metadata_and_check_license",
     "BaseNetBeans.parse_download_page_callback"}

\* the contexts on_done can be called from: the main loop, or the download
\* worker whose item completed the batch
on_done_callers == {"mainloop", "worker"}

\* the contexts a continuation can run on: a decorated one is rescheduled on
\* the main loop, any other runs where it is called
contexts(cont) == IF cont \in in_mainloop_thread THEN {"mainloop"} ELSE on_done_callers

\* DownloadCenter(urls, on_done=..., download=False)
DownloadCenter(urls, on_done) ==
    /\ fetched' = fetched \o urls
    /\ resolved' = {} /\ on_done_calls' = 0
    /\ pending' = urls
    /\ pc' = on_done

(* ---------------------------------------------------------------------- *)
(* BaseInstaller pipeline                                                  *)
(* ---------------------------------------------------------------------- *)

is_installed == <<".">> \in fs /\ required_files_path(tool) \subseteq fs

\* Idle -> scan of the existing install
Setup ==
    /\ pc = "setup"
    /\ IF is_installed
       THEN /\ stage' = "AlreadyInstalled"
            /\ pc' = "end"
            /\ status' = 0
       ELSE /\ stage' = "ResolveMetadata"
            /\ pc' = "provider"
            /\ status' = status
    /\ UNCHANGED <<envv, fs, log, raised, net, inst, post, ardu, netb, md5_url,
                   download_url, obs>>

\* BaseInstaller.download_provider_page: fetch self.download_page
download_provider_page ==
    /\ pc = "provider"
    /\ tool # "Eclipse"
    /\ DownloadCenter(<<download_page(tool)>>, "get_metadata_and_check_license")
    /\ UNCHANGED <<envv, fs, stage, status, log, raised, inst, post, ardu, netb,
                   md5_url, download_url, obs>>

\* BaseInstaller.start_download_and_install
start_download_and_install ==
    /\ install_started' = install_started + 1
    /\ stage' = "AwaitDownload"
    /\ pc' = "archive"
    /\ resolved' = {} /\ on_done_calls' = 0
    /\ pending' = [i \in 1..Len(download_requests') |-> download_requests'[i].url]
    /\ UNCHANGED <<status, log, raised, fetched>>

(* ---------------------------------------------------------------------- *)
(* Eclipse                                                                 *)
(* ---------------------------------------------------------------------- *)

\* Eclipse.DOWNLOAD_URL_PAT.format(arch=a, suf=s)
DOWNLOAD_URL_PAT(a, s) ==
    <<"https://www.eclipse.org/downloads/download.php?file=/technology/epp/downloads/release/luna/R/eclipse-standard-luna-R-linux-gtk",
      a, ".tar.gz", s, "&r=1">>

\* the arch= argument Eclipse picks for platform.machine()
EclipseArch(machine) == IF machine = "i686" THEN "" ELSE "-x86_64"

\* an architecture test that has no else branch
EclipseSupportsAny(machine) == TRUE

\* the machines download_provider_page has a branch for
EclipseSupported(machine) == machine \in {"i686", "x86_64"}

\* a provider step that starts the archive download at once, without the md5
Eclipse_download_provider_page_eager ==
    /\ pc = "provider"
    /\ tool = "Eclipse"
    /\ md5_url' = DOWNLOAD_URL_PAT(EclipseArch(arch), ".md5")
    /\ download_requests' =
           Append(download_requests,
                  DownloadItem(DOWNLOAD_URL_PAT(EclipseArch(arch), ""), NoChecksum, "none", FALSE))
    /\ start_download_and_install
    /\ UNCHANGED <<envv, fs, post, ardu, netb, download_url, obs>>

Eclipse_download_provider_page ==
    /\ pc = "provider"
    /\ tool = "Eclipse"
    /\ IF EclipseSupported(arch)
       THEN /\ md5_url' = DOWNLOAD_URL_PAT(EclipseArch(arch), ".md5")
            /\ DownloadCenter(<<md5_url'>>, "Eclipse.done")
            /\ UNCHANGED <<stage, status, log, raised>>
       ELSE /\ return_main_screen(<<"Unsupported architecture">>)
            /\ UNCHANGED <<md5_url, net>>
    /\ UNCHANGED <<envv, fs, inst, post, ardu, netb, download_url, obs>>

\* a DownloadItem that leaves the md5 out
EclipseItemWithoutChecksum(machine, md5) ==
    DownloadItem(DOWNLOAD_URL_PAT(EclipseArch(machine), ""), NoChecksum, "none", FALSE)

\* the DownloadItem Eclipse.done appends
EclipseItem(machine, md5) ==
    DownloadItem(DOWNLOAD_URL_PAT(EclipseArch(machine), ""), Checksum("md5", md5),
                 "none", FALSE)

Eclipse_done ==
    /\ pc = "Eclipse.done"
    /\ on_done_called
    /\ \E res \in PageResults(ChecksumFileBodies) :
        /\ \E ctx \in contexts("Eclipse.done") :
             obs' = [obs EXCEPT !.ran = @ \cup {[cont |-> "Eclipse.done", on |-> ctx]},
                                !.err = @ \/ res.error,
                              !.bad = @ \/ res.error \/ res.body = <<>>,
                              !.nested = FirstWord(res.body)]
        /\ IF has_error(res)
           THEN /\ return_main_screen(<<"res.error">>)
                /\ resolved' = {} /\ on_done_calls' = 0
                /\ pending' = <<>>
                /\ UNCHANGED <<fetched, download_requests, install_started>>
           ELSE IF Split(res.body) = <<>>
           THEN /\ Raise("IndexError")
                /\ resolved' = {} /\ on_done_calls' = 0
                /\ pending' = <<>>
                /\ UNCHANGED <<fetched, download_requests, install_started>>
           ELSE /\ download_requests' =
                       Append(download_requests, EclipseItem(arch, Split(res.body)[1]))
                /\ start_download_and_install
    /\ UNCHANGED <<envv, fs, post, ardu, netb, md5_url, download_url>>

(* ---------------------------------------------------------------------- *)
(* The JetBrains family                                                    *)
(* ---------------------------------------------------------------------- *)

\* an anchor of the download page: its text and its href (<<>>: no href)
JetBrainsHrefs == {<<"https://x/archive.tar.gz">>, <<"https://y/other.tar.gz">>}
JetBrainsAnchors == [text : {"HTTPS", "HTTP"}, href : JetBrainsHrefs \cup {<<>>}]
JetBrainsPages == SeqsUpTo(JetBrainsAnchors, MaxElems)

\* the positions from i on of the elements of a page that satisfy a test, in
\* page order; hits[i] tells whether element i satisfies it
RECURSIVE Matching(_, _)
Matching(hits, i) ==
    IF i > Len(hits) THEN <<>>
    ELSE (IF hits[i] THEN <<i>> ELSE <<>>) \o Matching(hits, i + 1)

\* soup.find(...): the position of the first element that satisfies the test, 0 for None
soup_find(hits) ==
    LET m == Matching(hits, 1) IN IF m = <<>> THEN 0 ELSE m[1]

IsHttps(a) == a.text = "HTTPS"
HttpsHits(page) == [i \in 1..Len(page) |-> IsHttps(page[i])]

\* the last anchor with the text HTTPS instead of the first, 0 for None
FindLastHttpsLink(page) ==
    LET m == Matching(HttpsHits(page), 1) IN IF m = <<>> THEN 0 ELSE m[Len(m)]

\* soup.find('a', text="HTTPS")
FindHttpsLink(page) == soup_find(HttpsHits(page))

\* a checksum URL with another suffix
checksum_url_md5(url) == url \o <<".md5">>

\* download_url + '.sha256'
checksum_url(url) == url \o <<".sha256">>

\* what a parsing stage that searches a page found on it (observation): the
\* number of elements that satisfy the test and the first of them in page order
Found(what, page, hits) ==
    LET at == {i \in 1..Len(page) : hits[i]}
    IN  [what |-> what, n |-> Cardinality(at),
         first |-> IF at = {} THEN <<>> ELSE page[CHOOSE i \in at : \A j \in at : i <= j]]

\* what a parsing stage that loops over the lines found (observation): the
\* number of lines that match, the first and the last of them
FoundLines(what, lines, hits) ==
    LET at == {i \in 1..Len(lines) : hits[i]}
    IN  [what |-> what, n |-> Cardinality(at),
         first |-> IF at = {} THEN <<>> ELSE lines[CHOOSE i \in at : \A j \in at : i <= j],
         last |-> IF at = {} THEN <<>> ELSE lines[CHOOSE i \in at : \A j \in at : i >= j]]

JetBrains_get_metadata_and_check_license ==
    /\ pc = "get_metadata_and_check_license"
    /\ on_done_called
    /\ tool \in JetBrainsTools
    /\ \E page \in PageResults(JetBrainsPages) :
        LET link == FindHttpsLink(page.body) IN
        /\ \E ctx \in contexts("BaseJetBrains.get_metadata_and_check_license") :
             obs' = [obs EXCEPT !.ran = @ \cup {[cont |-> "BaseJetBrains.get_metadata_and_check_license", on |-> ctx]},
                                !.err = @ \/ page.error,
                              !.bad = @ \/ page.error \/ page.body = <<>>,
                              !.parsed = IF page.error THEN @
                                         ELSE Append(@, Found("HTTPS", page.body, HttpsHits(page.body)))]
        /\ IF has_error(page)
           THEN /\ return_main_screen(<<"An error occurred while downloading">>)
                /\ resolved' = {} /\ on_done_calls' = 0
                /\ pending' = <<>>
                /\ UNCHANGED <<fetched, download_url>>
           ELSE IF link = 0
           THEN /\ return_main_screen(<<"Can't parse the download URL from the download page.">>)
                /\ resolved' = {} /\ on_done_calls' = 0
                /\ pending' = <<>>
                /\ UNCHANGED <<fetched, download_url>>
           ELSE IF page.body[link].href = <<>>
           THEN /\ Raise("KeyError")
                /\ resolved' = {} /\ on_done_calls' = 0
                /\ pending' = <<>>
                /\ UNCHANGED <<fetched, download_url>>
           ELSE /\ download_url' = page.body[link].href
                /\ DownloadCenter(<<checksum_url(download_url')>>, "checksum_downloaded")
                /\ UNCHANGED <<stage, status, log, raised>>
    /\ UNCHANGED <<envv, fs, inst, post, ardu, netb, md5_url>>

\* the DownloadItem checksum_downloaded appends
JetBrainsItem(url, checksum) ==
    DownloadItem(url, Checksum("sha256", checksum), "none", TRUE)

checksum_downloaded ==
    /\ pc = "checksum_downloaded"
    /\ on_done_called
    /\ \E checksum_result \in PageResults(ChecksumFileBodies) :
        /\ \E ctx \in contexts("BaseJetBrains.checksum_downloaded") :
             obs' = [obs EXCEPT !.ran = @ \cup {[cont |-> "BaseJetBrains.checksum_downloaded", on |-> ctx]},
                                !.err = @ \/ checksum_result.error,
                              !.bad = @ \/ checksum_result.error \/ checksum_result.body = <<>>,
                              !.nested = FirstWord(checksum_result.body)]
        /\ IF has_error(checksum_result)
           THEN /\ return_main_screen(<<"checksum_result.error">>)
                /\ resolved' = {} /\ on_done_calls' = 0
                /\ pending' = <<>>
                /\ UNCHANGED <<fetched, download_requests, install_started>>
           ELSE IF Split(checksum_result.body) = <<>>
           THEN /\ Raise("IndexError")
                /\ resolved' = {} /\ on_done_calls' = 0
                /\ pending' = <<>>
                /\ UNCHANGED <<fetched, download_requests, install_started>>
           ELSE /\ download_requests' =
                       Append(download_requests,
                              JetBrainsItem(download_url, Split(checksum_result.body)[1]))
                /\ start_download_and_install
    /\ UNCHANGED <<envv, fs, post, ardu, netb, md5_url, download_url>>

(* ---------------------------------------------------------------------- *)
(* Arduino                                                                 *)
(* ---------------------------------------------------------------------- *)

ARDUINO_GROUP == "dialout"

\* file names on the Arduino pages
ArduinoFiles == {"arduino-1.6.0-linux64.tar.xz", "arduino-1.0.5-linux64.tar.xz",
                 "arduino-1.6.0-linux32.tar.xz", "arduino-nightly-linux64.tar.xz"}

\* the names that r'arduino-[\d\.\-r]+-linux' + bits + '.tar.xz$' matches
MatchesArchivePattern(name, b) ==
    \/ b = "64" /\ name \in {"arduino-1.6.0-linux64.tar.xz", "arduino-1.0.5-linux64.tar.xz"}
    \/ b = "32" /\ name = "arduino-1.6.0-linux32.tar.xz"

\* anchors of the software page: a download link each, and the Checksums link
\* with and without an href
ArduinoAnchors ==
    {[href |-> <<"//downloads.arduino.cc/", f>>, text |-> "Linux"] : f \in ArduinoFiles}
    \cup {[href |-> <<"//arduino.cc/", "checksums.md5sum.txt">>, text |-> "Checksums"],
          [href |-> <<>>, text |-> "Checksums"]}
ArduinoPages == SeqsUpTo(ArduinoAnchors, MaxElems)

IsDownloadLink(a) == a.href # <<>> /\ MatchesArchivePattern(a.href[Len(a.href)], bits)
IsChecksumsLink(a) == a.text = "Checksums"
DownloadLinkHits(page) == [i \in 1..Len(page) |-> IsDownloadLink(page[i])]
ChecksumsLinkHits(page) == [i \in 1..Len(page) |-> IsChecksumsLink(page[i])]

Arduino_get_metadata_and_check_license ==
    /\ pc = "get_metadata_and_check_license"
    /\ on_done_called
    /\ tool = "Arduino"
    /\ \E page \in PageResults(ArduinoPages) :
        LET dl == soup_find(DownloadLinkHits(page.body))
            ck == soup_find(ChecksumsLinkHits(page.body))
        IN
        /\ \E ctx \in contexts("Arduino.get_metadata_and_check_license") :
             obs' = [obs EXCEPT !.ran = @ \cup {[cont |-> "Arduino.get_metadata_and_check_license", on |-> ctx]},
                     !.err = @ \/ page.error,
                     !.bad = @ \/ page.error \/ page.body = <<>>,
                     !.parsed = IF page.error THEN @
                                ELSE IF dl = 0
                                THEN Append(@, Found("download link", page.body, DownloadLinkHits(page.body)))
                                ELSE @ \o <<Found("download link", page.body, DownloadLinkHits(page.body)),
                                            Found("Checksums", page.body, ChecksumsLinkHits(page.body))>>]
        /\ resolved' = {} /\ on_done_calls' = 0
        /\ pending' = IF ~page.error /\ dl # 0 /\ ck # 0 /\ page.body[ck].href # <<>>
                      THEN <<<<"http:">> \o page.body[dl].href, <<"http:">> \o page.body[ck].href>>
                      ELSE <<>>
        /\ fetched' = fetched \o pending'
        /\ IF has_error(page)
           THEN /\ return_main_screen(<<"An error occurred while downloading">>)
                /\ UNCHANGED <<scraped_download_url, scraped_checksum_url>>
           ELSE IF dl = 0
           THEN \* TypeError suppressed: nothing was scraped
                /\ return_main_screen(<<"Can't parse the download link">>)
                /\ UNCHANGED <<scraped_download_url, scraped_checksum_url>>
           ELSE IF ck = 0
           THEN \* TypeError suppressed after the download link was stored
                /\ scraped_download_url' = page.body[dl].href
                /\ scraped_checksum_url' = scraped_checksum_url
                /\ return_main_screen(<<"Can't parse the checksum link">>)
           ELSE IF page.body[ck].href = <<>>
           THEN /\ scraped_download_url' = page.body[dl].href
                /\ scraped_checksum_url' = scraped_checksum_url
                /\ Raise("KeyError")
           ELSE /\ scraped_download_url' = <<"http:">> \o page.body[dl].href
                /\ scraped_checksum_url' = <<"http:">> \o page.body[ck].href
                /\ pc' = "prepare_to_download_archive"
                /\ UNCHANGED <<stage, status, log, raised>>
    /\ UNCHANGED <<envv, fs, inst, post, dialout, helper, ids, response, netb,
                   md5_url, download_url>>

\* lines of the checksums page: "digest  name"
ArduinoChecksumLines ==
    {<<"d1", "arduino-1.6.0-linux64.tar.xz">>,
     <<"d2", "arduino-1.0.5-linux64.tar.xz">>,
     <<"d2", "arduino-1.6.0-linux32.tar.xz">>}
ArduinoChecksumBodies == SeqsUpTo(ArduinoChecksumLines, MaxLines)

\* the token that follows the first token of line i, with the number of tokens
\* of the line it stands on: on line i itself, else on the next non-empty line
RECURSIVE NextToken(_, _)
NextToken(body, i) ==
    IF i > Len(body) THEN [tok |-> "", len |-> 0]
    ELSE IF body[i] = <<>> THEN NextToken(body, i + 1)
    ELSE [tok |-> body[i][1], len |-> Len(body[i])]

\* whether r'^(\S+)\s+arduino-[\d\.\-r]+-linux' + bits + '.tar.xz$' (re.M)
\* matches with ^ at the start of line i
LineMatches(body, i, b) ==
    /\ body[i] # <<>>
    /\ IF Len(body[i]) >= 2
       THEN Len(body[i]) = 2 /\ MatchesArchivePattern(body[i][2], b)
       ELSE LET nx == NextToken(body, i + 1)
            IN  nx.len = 1 /\ MatchesArchivePattern(nx.tok, b)

\* the last line the pattern matches at instead of the first, 0 for no match
SearchLastChecksum(body, b, i) ==
    LET at == {j \in i..Len(body) : LineMatches(body, j, b)}
    IN  IF at = {} THEN 0 ELSE CHOOSE j \in at : \A k \in at : j >= k

\* re.search(...): the first line the pattern matches at, 0 for no match
RECURSIVE SearchChecksum(_, _, _)
SearchChecksum(body, b, i) ==
    IF i > Len(body) THEN 0
    ELSE IF LineMatches(body, i, b) THEN i
    ELSE SearchChecksum(body, b, i + 1)

\* the download page: buttons with their text and the href of their parent
ArduinoButtons ==
    {[text |-> "JUST DOWNLOAD", href |-> <<"/download_handler.php">>],
     [text |-> "JUST DOWNLOAD", href |-> <<>>],
     [text |-> "CONTRIBUTE & DOWNLOAD", href |-> <<"/donate.php">>]}
ArduinoButtonPages == SeqsUpTo(ArduinoButtons, MaxElems)

IsJustDownload(b) == b.text = "JUST DOWNLOAD"
JustDownloadHits(page) == [i \in 1..Len(page) |-> IsJustDownload(page[i])]

Cookies == {"none", "cookie1"}

\* the final URL of the download page: its own, or the one it redirects to
FinalUrls(url) == {url, <<"http:", "//www.arduino.cc/", "en/Main/Donate">>}

\* parse.urljoin(base_url, href) for a root-relative href: scheme and host of the base
urljoin(base_url, href) ==
    IF href[1] = "http:" THEN href ELSE SubSeq(base_url, 1, 2) \o href

\* a DownloadItem without the cookies of the page
ArduinoItemWithoutCookies(url, checksum, cookies) ==
    DownloadItem(url, Checksum("md5", checksum), "none", FALSE)

\* the DownloadItem prepare_to_download_archive stores
ArduinoItem(url, checksum, cookies) ==
    DownloadItem(url, Checksum("md5", checksum), cookies, FALSE)

\* the outcomes of _add_to_group in its worker: os.seteuid(0) raises for a
\* process that is not privileged, adduser succeeds or fails
AddToGroupOutcomes(e) == IF e.uid = 0 THEN {"True", "False"} ELSE {"PermissionError"}

\* _add_to_group: os.seteuid(0), os.setegid(0) in the process that runs it
switch_to_root(id, e) == IF e.uid = 0 THEN [euid |-> 0, egid |-> 0] ELSE id

\* the helper run by the installer itself
this_process == "main"

\* futures.ProcessPoolExecutor(max_workers=1): the helper runs in the worker
ProcessPoolExecutor == "worker"

\* no result of the helper ends the session
helper_never_fails(added) == FALSE

\* `if not f.result()`
helper_failed(added) == added = "False"

prepare_to_download_archive ==
    /\ pc = "prepare_to_download_archive"
    /\ on_done_called
    /\ \E cp \in PageResults(ArduinoChecksumBodies) :
       LET m == SearchChecksum(cp.body, bits, 1)
           lines == {i \in 1..Len(cp.body) : LineMatches(cp.body, i, bits)}
       IN
       \E dp \in PageResults(ArduinoButtonPages) :
        LET btn == soup_find(JustDownloadHits(dp.body)) IN
        /\ \E ctx \in contexts("Arduino.prepare_to_download_archive") :
             obs' = [obs EXCEPT !.ran = @ \cup {[cont |-> "Arduino.prepare_to_download_archive", on |-> ctx]},
                     !.err = @ \/ dp.error \/ cp.error,
                     !.bad = @ \/ dp.error \/ cp.error \/ dp.body = <<>> \/ cp.body = <<>>,
                     !.nested = IF cp.error THEN <<>> ELSE FirstWord(cp.body),
                     !.parsed = IF dp.error \/ cp.error THEN @
                                ELSE IF m = 0
                                THEN Append(@, [what |-> "checksum", n |-> 0, first |-> <<>>])
                                ELSE @ \o <<[what |-> "checksum", n |-> Cardinality(lines),
                                             first |-> cp.body[CHOOSE i \in lines : \A j \in lines : i <= j]],
                                            Found("JUST DOWNLOAD", dp.body, JustDownloadHits(dp.body))>>]
        /\ IF has_error(dp)
           THEN /\ return_main_screen(<<"Error fetching download page">>)
                /\ resolved' = {} /\ on_done_calls' = 0
                /\ pending' = <<>>
                /\ UNCHANGED <<fetched, inst, dialout, helper, ids, response>>
           ELSE IF has_error(cp)
           THEN /\ return_main_screen(<<"Error fetching checksums">>)
                /\ resolved' = {} /\ on_done_calls' = 0
                /\ pending' = <<>>
                /\ UNCHANGED <<fetched, inst, dialout, helper, ids, response>>
           ELSE IF m = 0
           THEN /\ return_main_screen(<<"Can't find a checksum.">>)
                /\ resolved' = {} /\ on_done_calls' = 0
                /\ pending' = <<>>
                /\ UNCHANGED <<fetched, inst, dialout, helper, ids, response>>
           ELSE IF btn = 0
           THEN /\ return_main_screen(<<"Can't parse download button.">>)
                /\ resolved' = {} /\ on_done_calls' = 0
                /\ pending' = <<>>
                /\ UNCHANGED <<fetched, inst, dialout, helper, ids, response>>
           ELSE IF dp.body[btn].href = <<>>
           THEN /\ Raise("KeyError")
                /\ resolved' = {} /\ on_done_calls' = 0
                /\ pending' = <<>>
                /\ UNCHANGED <<fetched, inst, dialout, helper, ids, response>>
           ELSE \E final_url \in FinalUrls(scraped_download_url), cookies \in Cookies :
                /\ download_requests' =
                      <<ArduinoItem(urljoin(final_url, dp.body[btn].href),
                                    cp.body[m][1], cookies)>>
                /\ response' = [final_url |-> final_url, cookies |-> cookies]
                /\ IF was_in_arduino_group
                   THEN /\ start_download_and_install
                        /\ UNCHANGED <<dialout, helper, ids>>
                   ELSE \* add the user to arduino group, in a worker process
                        \E added \in AddToGroupOutcomes(os_env) :
                        /\ helper' = Append(helper, [user |-> current_user,
                                                      group |-> ARDUINO_GROUP,
                                                      result |-> added,
                                                      stage |-> stage,
                                                      started |-> install_started])
                        /\ dialout' = IF added = "True"
                                      THEN dialout \cup {current_user} ELSE dialout
                        /\ ids' = [ids EXCEPT ![ProcessPoolExecutor] =
                                                  switch_to_root(@, os_env)]
                        /\ IF added = "PermissionError"
                           THEN /\ Raise("PermissionError")
                                /\ resolved' = {} /\ on_done_calls' = 0
                                /\ pending' = <<>>
                                /\ UNCHANGED <<fetched, install_started>>
                           ELSE IF helper_failed(added)
                           THEN /\ return_main_screen(<<>>)
                                /\ resolved' = {} /\ on_done_calls' = 0
                                /\ pending' = <<>>
                                /\ UNCHANGED <<fetched, install_started>>
                           ELSE start_download_and_install
    /\ UNCHANGED <<envv, fs, post, scraped_download_url, scraped_checksum_url, netb,
                   md5_url, download_url>>

(* ---------------------------------------------------------------------- *)
(* NetBeans                                                                *)
(* ---------------------------------------------------------------------- *)

BASE_URL == <<"http://download.netbeans.org/netbeans/">>
\* another version as the fallback
OTHER_FALLBACK_VERSION == <<"8.1">>
FALLBACK_VERSION == <<"8.0.2">>

\* self.flavour of the installer
flavour(t) == ""

\* lines of the download page, in pieces: the PAGE_ARTIFACTS_LOCATION line of a
\* version, another line that names /images_www/v6/download/, any other line
ArtifactsPrefix == "var PAGE_ARTIFACTS_LOCATION = \"/images_www/v6/download/"
ArtifactsSuffix == "/\";"
VersionLines ==
    {<<ArtifactsPrefix, v, ArtifactsSuffix>> : v \in {"8.0.2", "8.1"}}
    \cup {<<"<img src=\"/images_www/v6/download/banner.png\">">>, <<"<html>">>}
VersionPages == SeqsUpTo(VersionLines, MaxLines)

\* re.compile(".*/images_www/v6/download/.*").match(line)
IsVersionLine(line) == line # <<"<html>">>

\* line.replace(prefix, "").replace(suffix, "").strip()
CleanVersionLine(line) ==
    SelectSeq(line, LAMBDA piece : piece \notin {ArtifactsPrefix, ArtifactsSuffix})

\* the for loop over the lines: the last matching line sets self.version
RECURSIVE ScanVersion(_, _)
ScanVersion(lines, v) ==
    IF lines = <<>> THEN v
    ELSE ScanVersion(Tail(lines),
                     IF IsVersionLine(Head(lines)) THEN CleanVersionLine(Head(lines)) ELSE v)

\* "https://netbeans.org/images_www/v6/download/{}/js/files.js".format(version)
FilesJs(v) == <<"https://netbeans.org/images_www/v6/download/">> \o v \o <<"/js/files.js">>

NetBeans_get_metadata_and_check_license ==
    /\ pc = "get_metadata_and_check_license"
    /\ on_done_called
    /\ tool = "Netbeans"
    /\ \E page \in PageResults(VersionPages) :
        LET scanned == ScanVersion(page.body, version) IN
        /\ \E ctx \in contexts("BaseNetBeans.get_metadata_and_check_license") :
             obs' = [obs EXCEPT !.ran = @ \cup {[cont |-> "BaseNetBeans.get_metadata_and_check_license", on |-> ctx]},
                                !.err = @ \/ page.error,
                              !.bad = @ \/ page.error \/ page.body = <<>>,
                              !.parsed = IF page.error THEN @
                                         ELSE Append(@, FoundLines("version", page.body,
                                                   [i \in 1..Len(page.body) |->
                                                      IsVersionLine(page.body[i])]))]
        /\ IF page.error
           THEN \* buffer is None: AttributeError, caught
                /\ return_main_screen(<<"You either have no connection available or the download page changed its syntax or is not parsable">>)
                /\ resolved' = {} /\ on_done_calls' = 0
                /\ pending' = <<>>
                /\ UNCHANGED <<fetched, version, version_download_page>>
           ELSE /\ version' = IF scanned = NoVersion THEN FALLBACK_VERSION ELSE scanned
                /\ version_download_page' = FilesJs(version')
                /\ DownloadCenter(<<version_download_page'>>, "parse_download_page_callback")
                /\ UNCHANGED <<stage, status, log, raised>>
    /\ UNCHANGED <<envv, fs, inst, post, ardu, md5_url, download_url>>

\* lines of files.js: add_file("zip/netbeans-<version>-<stamp><flavour>.zip", size,
\* "<md5>", ...) calls, one cut short after its first argument, any other line
AddFileLines ==
    [kind : {"add_file"}, version : {<<"8.0.2">>, <<"8.1">>}, flavour : {"", "-cpp"},
     md5 : {"d1"}, args : {3}]
    \cup {[kind |-> "add_file", version |-> <<"8.0.2">>, flavour |-> "", md5 |-> "d2", args |-> 3],
          [kind |-> "add_file", version |-> <<"8.0.2">>, flavour |-> "", md5 |-> "d1", args |-> 1],
          [kind |-> "other", version |-> <<>>, flavour |-> "", md5 |-> "", args |-> 0]}
FilesJsBodies == SeqsUpTo(AddFileLines, MaxLines)

\* re.compile('add_file\("zip/netbeans-' + version + '-[0-9]{12}' + flavour + '.zip"').match(line)
IsAddFile(line, v, f) == line.kind = "add_file" /\ line.version = v /\ line.flavour = f

\* the for loop over the lines: the last matching line is url_string; 0 when
\* the loop never binds url_string
RECURSIVE ScanAddFile(_, _, _, _)
ScanAddFile(lines, v, f, i) ==
    IF i = 0 THEN 0
    ELSE IF IsAddFile(lines[i], v, f) THEN i
    ELSE ScanAddFile(lines, v, f, i - 1)

\* url_suffix of a cleaned add_file line: string_array[0]
UrlSuffix(line) == <<"zip/netbeans-">> \o line.version \o <<line.flavour, ".zip">>

\* the DownloadItem parse_download_page_callback appends
NetBeansItem(v, line) ==
    DownloadItem(BASE_URL \o v \o <<"/final/">> \o UrlSuffix(line),
                 Checksum("md5", line.md5), "none", FALSE)

parse_download_page_callback ==
    /\ pc = "parse_download_page_callback"
    /\ on_done_called
    /\ \E res \in PageResults(FilesJsBodies) :
        LET at == ScanAddFile(res.body, version, flavour(tool), Len(res.body))
            mine == [i \in 1..Len(res.body) |-> IsAddFile(res.body[i], version, flavour(tool))]
        IN
        /\ \E ctx \in contexts("BaseNetBeans.parse_download_page_callback") :
             obs' = [obs EXCEPT !.ran = @ \cup {[cont |-> "BaseNetBeans.parse_download_page_callback", on |-> ctx]},
                                !.err = @ \/ res.error,
                              !.bad = @ \/ res.error \/ res.body = <<>>,
                              !.parsed = IF res.error THEN @
                                         ELSE Append(@, FoundLines("add_file", res.body, mine))]
        /\ IF res.error
           THEN \* buffer is None: AttributeError, caught
                /\ return_main_screen(<<"The download page changed its syntax or is not parsable">>)
                /\ resolved' = {} /\ on_done_calls' = 0
                /\ pending' = <<>>
                /\ UNCHANGED <<fetched, inst>>
           ELSE IF at = 0
           THEN \* url_string was never bound
                /\ Raise("UnboundLocalError")
                /\ resolved' = {} /\ on_done_calls' = 0
                /\ pending' = <<>>
                /\ UNCHANGED <<fetched, inst>>
           ELSE IF res.body[at].args < 3
           THEN \* IndexError on string_array[2], caught
                /\ return_main_screen(<<"The download page changed its syntax or is not parsable">>)
                /\ resolved' = {} /\ on_done_calls' = 0
                /\ pending' = <<>>
                /\ UNCHANGED <<fetched, inst>>
           ELSE /\ download_requests' =
                       Append(download_requests, NetBeansItem(version, res.body[at]))
                /\ start_download_and_install
    /\ UNCHANGED <<envv, fs, post, ardu, netb, md5_url, download_url>>

(* ---------------------------------------------------------------------- *)
(* Download of the archive, verification, extraction, post-install         *)
(* ---------------------------------------------------------------------- *)

\* the result of an archive download: a transport error, or bytes with a digest
ArchiveResults == [error : BOOLEAN, digest : Digests]

\* the Checksum Verifier: the digest of the bytes against the DownloadItem's checksum
Verified(item, res) ==
    item.checksum = NoChecksum \/ res.digest = item.checksum.digest

\* the completion of the archive batch
download_done ==
    /\ pc = "archive"
    /\ on_done_called
    /\ \E rs \in [1..Len(download_requests) -> ArchiveResults] :
        /\ obs' = [obs EXCEPT !.archive = rs]
        /\ IF \E i \in 1..Len(rs) : rs[i].error \/ ~Verified(download_requests[i], rs[i])
           THEN return_main_screen(<<"download failed">>)
           ELSE /\ stage' = "Extracting"
                /\ pc' = "extract"
                /\ UNCHANGED <<status, log, raised>>
    /\ resolved' = {} /\ on_done_calls' = 0
    /\ pending' = <<>>
    /\ UNCHANGED <<envv, fs, fetched, inst, post, ardu, netb, md5_url, download_url>>

\* the files of the tool that the archive unpacks at the target path: the
\* directory and the executable the launcher of the tool starts
Unpacked(t) ==
    {<<".">>} \cup
    (CASE t = "Eclipse" -> {<<"eclipse">>}
       [] t \in JetBrainsTools -> {<<"bin", executable(t)>>}
       [] t = "Arduino" -> {<<"arduino">>}
       [] OTHER -> {<<"bin", "netbeans">>})

\* the extraction collaborator
decompress ==
    /\ pc = "extract"
    /\ extracted' = TRUE
    /\ \E ok \in BOOLEAN :
        /\ obs' = [obs EXCEPT !.unpacked = IF ok THEN "ok" ELSE "failed"]
        /\ IF ok
           THEN /\ fs' = fs \cup Unpacked(tool)
                /\ stage' = "PostInstall"
                /\ pc' = "post_install"
                /\ UNCHANGED <<status, log, raised>>
           ELSE /\ return_main_screen(<<"extraction failed">>)
                /\ fs' = fs \cup {<<".">>}
    /\ UNCHANGED <<envv, net, inst, launchers, notices, ardu, netb, md5_url, download_url>>

\* desktop_filename handed to BaseInstaller.__init__ by each installer
desktop_filename(t) ==
    CASE t = "Eclipse" -> "eclipse.desktop"
      [] t \in {"PyCharm", "PyCharm Educational", "PyCharm Professional"} ->
            "jetbrains-pycharm.desktop"
      [] t \in {"Idea", "Idea Ultimate"} -> "jetbrains-idea.desktop"
      [] t = "RubyMine" -> "jetbrains-rubymine.desktop"
      [] t = "WebStorm" -> "jetbrains-webstorm.desktop"
      [] t = "PhpStorm" -> "jetbrains-phpstorm.desktop"
      [] t = "Arduino" -> "arduino.desktop"
      [] OTHER -> "netbeans.desktop"

\* create_launcher(desktop_filename, ...): the desktop file is written anew
create_launcher(file, owner) ==
    launchers' = {l \in launchers : l.file # file} \cup {[file |-> file, exec |-> owner]}

\* the notice is shown after every install of Arduino
logout_notice_always == tool = "Arduino"

\* Arduino.post_install: `if not self.was_in_arduino_group`
logout_notice_due == tool = "Arduino" /\ ~was_in_arduino_group

\* a post_install that writes no launcher
post_install_without_launcher ==
    /\ pc = "post_install"
    /\ notices' = IF tool = "Arduino" /\ ~was_in_arduino_group
                  THEN Append(notices, "You need to logout and login again for your installation to work")
                  ELSE notices
    /\ obs' = [obs EXCEPT !.launched = TRUE]
    /\ stage' = "Installed"
    /\ pc' = "end"
    /\ status' = 0
    /\ UNCHANGED <<envv, fs, log, raised, net, inst, extracted, launchers, ardu, netb,
                   md5_url, download_url>>

\* a post_install that adds the user to the group itself
post_install_with_helper ==
    /\ pc = "post_install"
    /\ create_launcher(desktop_filename(tool), tool)
    /\ IF tool = "Arduino" /\ ~was_in_arduino_group
       THEN /\ helper' = Append(helper, [user |-> current_user,
                                         group |-> ARDUINO_GROUP,
                                         result |-> "True",
                                         stage |-> stage,
                                         started |-> install_started])
            /\ dialout' = dialout \cup {current_user}
            /\ notices' = Append(notices, "You need to logout and login again for your installation to work")
       ELSE UNCHANGED <<helper, dialout, notices>>
    /\ obs' = [obs EXCEPT !.launched = TRUE]
    /\ stage' = "Installed"
    /\ pc' = "end"
    /\ status' = 0
    /\ UNCHANGED <<envv, fs, log, raised, net, inst, extracted, scraped_download_url,
                   scraped_checksum_url, ids, response, netb, md5_url, download_url>>

\* a post_install that requests the archive again
post_install_restarts ==
    /\ pc = "post_install"
    /\ create_launcher(desktop_filename(tool), tool)
    /\ obs' = [obs EXCEPT !.launched = TRUE]
    /\ download_requests' = download_requests
    /\ start_download_and_install
    /\ UNCHANGED <<envv, fs, extracted, notices, ardu, netb, md5_url, download_url>>

\* post_install of each installer, then the end of the pipeline
post_install ==
    /\ pc = "post_install"
    /\ create_launcher(desktop_filename(tool), tool)
    /\ notices' = IF logout_notice_due
                  THEN Append(notices, "You need to logout and login again for your installation to work")
                  ELSE notices
    /\ obs' = [obs EXCEPT !.launched = TRUE, !.installed = @ \cup {tool}]
    /\ stage' = "Installed"
    /\ pc' = "end"
    /\ status' = 0
    /\ UNCHANGED <<envv, fs, log, raised, net, inst, extracted, ardu, netb, md5_url,
                   download_url>>

\* the user asks for the same tool at the same path again, after the session
\* came to its end: a new installer is constructed and starts from Idle; the
\* target path, the launchers and the groups of the system are as they were left
NewRequest ==
    /\ pc = "end"
    /\ after_installed' = (stage = "Installed")
    /\ reused' = FALSE
    /\ current_user' = IF tool = "Arduino" THEN ArduinoCurrentUser(os_env) ELSE ""
    /\ was_in_arduino_group' = (tool = "Arduino" /\ current_user' \in dialout)
    /\ stage' = "Idle"
    /\ pc' = "setup"
    /\ status' = -1
    /\ log' = <<>>
    /\ raised' = "none"
    /\ fetched' = <<>>
    /\ resolved' = {} /\ on_done_calls' = 0
    /\ pending' = <<>>
    /\ download_requests' = <<>>
    /\ install_started' = 0
    /\ extracted' = FALSE
    /\ scraped_download_url' = <<>>
    /\ scraped_checksum_url' = <<>>
    /\ helper' = <<>>
    /\ ids' = InitialIds(os_env)
    /\ response' = <<>>
    /\ notices' = <<>>
    /\ version' = NoVersion
    /\ version_download_page' = <<>>
    /\ md5_url' = <<>>
    /\ download_url' = <<>>
    /\ obs' = [NoObs EXCEPT !.invoker_member =
                               (tool = "Arduino" /\ InvokingUser(os_env) \in dialout),
                             !.installed = obs.installed]
    /\ UNCHANGED <<tool, arch, os_env, bits, fs, launchers, dialout>>

Next ==
    \/ Setup
    \/ download_provider_page
    \/ Eclipse_download_provider_page
    \/ Eclipse_done
    \/ JetBrains_get_metadata_and_check_license
    \/ checksum_downloaded
    \/ Arduino_get_metadata_and_check_license
    \/ prepare_to_download_archive
    \/ NetBeans_get_metadata_and_check_license
    \/ parse_download_page_callback
    \/ DownloadCenter_item_done
    \/ download_done
    \/ decompress
    \/ post_install
    \/ NewRequest

Spec == Init /\ [][Next]_vars

\* the steps of a session: every action but the request of the user
Step ==
    \/ Setup
    \/ download_provider_page
    \/ Eclipse_download_provider_page
    \/ Eclipse_done
    \/ JetBrains_get_metadata_and_check_license
    \/ checksum_downloaded
    \/ Arduino_get_metadata_and_check_license
    \/ prepare_to_download_archive
    \/ NetBeans_get_metadata_and_check_license
    \/ parse_download_page_callback
    \/ DownloadCenter_item_done
    \/ download_done
    \/ decompress
    \/ post_install

\* the scheduling of a session: the main loop runs a continuation that was
\* called, the pipeline goes on to its next step, and the transport comes back
\* for every item with a result or an error; the user need not ask again
FairSpec == Spec /\ WF_vars(Step)

\* the installer object of a session that failed is set up again, in the same
\* process: the attributes the resolvers keep on self (download_requests, the
\* scraped URLs, the version, was_in_arduino_group) are as the session left
\* them, the pipeline starts again from Idle
SetupAgain ==
    /\ pc = "end"
    /\ stage = "Failed"
    /\ ~reused
    /\ reused' = TRUE
    /\ stage' = "Idle"
    /\ pc' = "setup"
    /\ status' = -1
    /\ log' = <<>>
    /\ raised' = "none"
    /\ fetched' = <<>>
    /\ resolved' = {} /\ on_done_calls' = 0
    /\ pending' = <<>>
    /\ install_started' = 0
    /\ extracted' = FALSE
    /\ helper' = <<>>
    /\ response' = <<>>
    /\ notices' = <<>>
    /\ md5_url' = <<>>
    /\ download_url' = <<>>
    /\ obs' = [NoObs EXCEPT !.invoker_member = obs.invoker_member,
                             !.installed = obs.installed]
    /\ UNCHANGED <<tool, arch, os_env, bits, current_user, was_in_arduino_group,
                   after_installed, fs, launchers, dialout, ids, download_requests,
                   scraped_download_url, scraped_checksum_url, netb>>

\* sessions on a supported machine and an empty target, started through sudo
InitReuse ==
    /\ Init
    /\ arch = "x86_64"
    /\ fs = {}
    /\ tool = "Arduino" =>
          /\ os_env = [euid |-> 0, uid |-> 0, SUDO_UID |-> 1000, USER |-> "root"]
          /\ dialout = {}

NextReuse == Step \/ SetupAgain

\* an installer object that is set up a second time after a failed session
ReuseSpec == InitReuse /\ [][NextReuse]_vars

\* the tools of JetBrains whose editions are installed side by side, and one
\* that has no other edition
SequenceTools == {"PyCharm", "PyCharm Professional", "Idea", "Idea Ultimate", "RubyMine"}

\* after an install the user asks for a tool that is not installed yet: a new
\* installer is constructed for it, its target path (ide/<name of the tool>)
\* is absent, the launchers of the system are as the installs left them
InstallOther ==
    /\ pc = "end"
    /\ stage = "Installed"
    /\ \E t \in SequenceTools \ obs.installed : tool' = t
    /\ fs' = {}
    /\ after_installed' = FALSE
    /\ reused' = FALSE
    /\ stage' = "Idle"
    /\ pc' = "setup"
    /\ status' = -1
    /\ log' = <<>>
    /\ raised' = "none"
    /\ fetched' = <<>>
    /\ resolved' = {} /\ on_done_calls' = 0
    /\ pending' = <<>>
    /\ download_requests' = <<>>
    /\ install_started' = 0
    /\ extracted' = FALSE
    /\ notices' = <<>>
    /\ md5_url' = <<>>
    /\ download_url' = <<>>
    /\ obs' = [NoObs EXCEPT !.installed = obs.installed]
    /\ UNCHANGED <<arch, os_env, bits, current_user, was_in_arduino_group, launchers,
                   ardu, netb>>

\* a first install of one of the tools on a supported machine
InitSequence ==
    /\ Init
    /\ tool \in SequenceTools
    /\ arch = "x86_64"
    /\ fs = {}

NextSequence ==
    \/ Setup
    \/ download_provider_page
    \/ JetBrains_get_metadata_and_check_license
    \/ checksum_downloaded
    \/ DownloadCenter_item_done
    \/ download_done
    \/ decompress
    \/ post_install
    \/ InstallOther

\* installs of distinct tools, one after the other, on one system
SequenceSpec == InitSequence /\ [][NextSequence]_vars

(* ---------------------------------------------------------------------- *)
(* Properties                                                              *)
(* ---------------------------------------------------------------------- *)

NoDuplicates(s) == \A i, j \in 1..Len(s) : s[i] = s[j] => i = j

\* the resolvers that fetch a checksum of their own before the archive
NestedChecksumTools == {"Eclipse", "Arduino"} \cup JetBrainsTools

\* the digest the archive DownloadItem of the session carries
AttachedDigest == download_requests[Len(download_requests)].checksum.digest

\* C1: every DownloadItem handed to the archive download carries a checksum,
\* and when the digest of the downloaded bytes differs from the digest the
\* item carries the session is Failed and extraction was never invoked.
C1_ChecksumMismatchFails ==
    /\ install_started > 0 =>
          \A i \in 1..Len(download_requests) : download_requests[i].checksum # NoChecksum
    /\ \A i \in 1..Len(obs.archive) :
          (~obs.archive[i].error
             /\ obs.archive[i].digest # download_requests[i].checksum.digest)
          => stage = "Failed" /\ status = 1 /\ ~extracted

\* C1 witness: an archive arrived whole with another digest and the session failed
C1_Witness ==
    /\ obs.archive # <<>>
    /\ ~obs.archive[1].error
    /\ obs.archive[1].digest # download_requests[1].checksum.digest
    /\ stage = "Failed"

\* the URL of the nested checksum fetch of the session
NestedChecksumUrl ==
    CASE tool = "Eclipse" -> md5_url
      [] tool = "Arduino" -> scraped_checksum_url
      [] OTHER -> download_url \o <<".sha256">>

\* C2: for Eclipse, JetBrains and Arduino, once start_download_and_install has
\* been invoked the nested checksum fetch was issued and resolved without
\* error, its digest is attached to the one archive DownloadItem, and the
\* archive URL was never requested before.
C2_ChecksumBeforeArchive ==
    (tool \in NestedChecksumTools /\ install_started > 0) =>
        /\ NestedChecksumUrl \in Range(fetched)
        /\ ~obs.err
        /\ obs.nested # <<>>
        /\ Len(download_requests) = 1
        /\ download_requests[1].checksum # NoChecksum
        /\ download_requests[1].url \notin Range(fetched)

\* C2 witness: the archive download of an Eclipse session is under way
C2_Witness ==
    /\ tool = "Eclipse"
    /\ stage = "AwaitDownload"
    /\ install_started = 1
    /\ Len(fetched) = 1

\* C3 as stated: for Eclipse, JetBrains and Arduino the attached digest is the
\* first whitespace-delimited token of the body of the nested checksum fetch.
C3_DigestIsFirstToken ==
    (tool \in NestedChecksumTools /\ install_started > 0) =>
        obs.nested = <<AttachedDigest>>

\* the record of the parsing stage `what`, if the session ran it
ParsedAt(what) == {i \in 1..Len(obs.parsed) : obs.parsed[i].what = what}

\* C3 amended: for Eclipse and JetBrains the attached digest is the first
\* whitespace-delimited token of the checksum body; for Arduino it is the first
\* token of the first line of the checksums page that names an archive
\* arduino-<version>-linux<bits>.tar.xz.
C3_DigestIsFirstTokenOrListedLine ==
    install_started > 0 =>
        /\ tool \in {"Eclipse"} \cup JetBrainsTools => obs.nested = <<AttachedDigest>>
        /\ tool = "Arduino" =>
              \E i \in ParsedAt("checksum") : obs.parsed[i].first[1] = AttachedDigest

\* C3 witness: an Arduino session attached the digest of a line that is not the
\* first of the checksums page
C3_Witness ==
    /\ tool = "Arduino"
    /\ install_started > 0
    /\ obs.nested # <<AttachedDigest>>

\* C4: a JetBrains session whose download page has U as the href of its HTTPS
\* anchor fetches U + '.sha256' right after the page; while the checksum is
\* awaited no DownloadItem exists, and once a checksum body with first token D
\* arrived there is exactly one DownloadItem, with url U and checksum
\* (sha256, D), and the download was started once.
C4_JetBrainsScenario ==
    (/\ tool \in JetBrainsTools
     /\ obs.parsed # <<>>
     /\ obs.parsed[1].n > 0
     /\ obs.parsed[1].first.href # <<>>) =>
        LET U == obs.parsed[1].first.href IN
        /\ fetched = <<download_page(tool), U \o <<".sha256">>>>
        /\ IF obs.nested = <<>>
           THEN download_requests = <<>> /\ install_started = 0
           ELSE /\ Len(download_requests) = 1
                /\ download_requests[1].url = U
                /\ download_requests[1].checksum = [type |-> "sha256", digest |-> obs.nested[1]]
                /\ install_started = 1

\* C4 witness: a JetBrains session started its download from U and D
C4_Witness ==
    /\ tool \in JetBrainsTools
    /\ obs.parsed # <<>>
    /\ obs.parsed[1].n > 0
    /\ obs.nested # <<>>
    /\ install_started = 1
    /\ stage = "AwaitDownload"

\* C5 as stated: when a parsing stage finds zero matches of what it looks for,
\* the session is aborted with status 1, no request is in flight and
\* start_download_and_install was not invoked.
C5_ZeroMatchesAbort ==
    \A i \in 1..Len(obs.parsed) :
        obs.parsed[i].n = 0 =>
            /\ stage = "Failed"
            /\ status = 1
            /\ pending = <<>>
            /\ install_started = 0

\* C6 as stated: when a continuation was handed a result with an error or an
\* empty body, an error is logged, the session is aborted with status 1, no
\* DownloadItem was added and no further fetch is in flight.
C6_BadResultAborts ==
    obs.bad =>
        /\ stage = "Failed"
        /\ status = 1
        /\ log # <<>>
        /\ download_requests = <<>>
        /\ pending = <<>>
        /\ install_started = 0

EndsWith(url, href) ==
    Len(url) >= Len(href) /\ SubSeq(url, Len(url) - Len(href) + 1, Len(url)) = href

SupportedMachines == {"i686", "x86_64"}

\* the resolver of the session has run
ResolverRan == pc \notin {"setup", "provider", "get_metadata_and_check_license"}

Linux64Names == {"arduino-1.6.0-linux64.tar.xz", "arduino-1.0.5-linux64.tar.xz"}
Linux32Names == {"arduino-1.6.0-linux32.tar.xz"}

Unset(what) ==
    CASE what = "HTTPS" -> download_url = <<>>
      [] what = "download link" -> scraped_download_url = <<>>
      [] what = "Checksums" -> scraped_checksum_url = <<>>
      [] what = "version" -> version = <<>>
      [] OTHER -> download_requests = <<>>

\* no URL is fetched twice, and an error result ends the session as Failed
NoRetry ==
    /\ NoDuplicates(fetched)
    /\ obs.err => stage = "Failed" /\ status = 1
    /\ (\E i \in 1..Len(obs.archive) : obs.archive[i].error) => stage = "Failed" /\ status = 1

NamedRequiredFiles ==
    IF tool = "Eclipse" THEN {<<"eclipse">>} ELSE {<<"bin", executable(tool)>>}

SessionOver == pc \in {"end", "dead"}

\* every fetch of the session so far succeeded and yielded what the resolver
\* looks for, and the archive arrived whole with the digest the item carries
FetchesSucceeded ==
    /\ ~obs.bad
    /\ raised # "IndexError"      \* no checksum file without a token
    /\ \A i \in 1..Len(obs.parsed) :
          LET p == obs.parsed[i] IN
          /\ p.n >= 1
          /\ p.what \in {"HTTPS", "Checksums", "JUST DOWNLOAD"} => p.first.href # <<>>
          /\ p.what = "add_file" => p.last.args = 3
    /\ \A i \in 1..Len(obs.archive) :
          /\ ~obs.archive[i].error
          /\ obs.archive[i].digest = download_requests[i].checksum.digest

\* the launcher of the tool, as its post_install writes it
ToolLauncher == [file |-> desktop_filename(tool), exec |-> tool]

C14_ContinuationsOnMainLoop == \A r \in obs.ran : r.on = "mainloop"

\* C15: whenever the group helper is invoked, the user it is asked to add is
\* the user who ran the installer and is not root, whatever the effective
\* uid, SUDO_UID and USER are.
C15_HelperAddsInvokingUser ==
    \A i \in 1..Len(helper) :
        /\ helper[i].user # "root"
        /\ helper[i].user = InvokingUser(os_env)

\* C16: when the group helper reported failure, the session is Failed with
\* status 1 and is over, and no archive download was started and no launcher
\* was created after it.
C16_HelperFailureAborts ==
    \A i \in 1..Len(helper) :
        helper[i].result = "False" =>
            /\ stage = "Failed" /\ status = 1 /\ pc = "end"
            /\ install_started = 0
            /\ obs.archive = <<>>
            /\ ~extracted
            /\ ~obs.launched

\* C16 witness: a helper that reported failure, after both pages were read
C16_Witness ==
    /\ helper # <<>>
    /\ helper[1].result = "False"
    /\ download_requests # <<>>
    /\ stage = "Failed"

\* C17: the effective uid and gid of the installer's own process stay what
\* they were when the session started, whether the helper succeeds or fails;
\* only the worker's change.
C17_MainProcessIdsUnchanged ==
    /\ ids["main"] = InitialIds(os_env)["main"]
    /\ helper = <<>> => ids["worker"] = InitialIds(os_env)["worker"]

\* C17 witness: the helper became root in its worker, and the installer did not
C17_Witness ==
    /\ helper # <<>>
    /\ helper[1].result \in {"True", "False"}
    /\ ids["worker"] = [euid |-> 0, egid |-> 0]
    /\ ids["main"].euid = 1000

need_root_access == ~was_in_arduino_group

\* C19: in a session the group helper is invoked at most once, and it is
\* invoked if and only if the user who ran the installer was not a member of
\* the group when the installer was constructed, which is also when root
\* access is requested. (A session reaches the point of the helper only when
\* both pages were read; "if" is taken for the sessions that start the
\* archive download.)
C19_HelperOnceIffNotMember ==
    /\ Len(helper) <= 1
    /\ helper # <<>> => ~obs.invoker_member /\ need_root_access
    /\ (tool = "Arduino" /\ install_started > 0 /\ ~obs.invoker_member) =>
          helper # <<>> /\ need_root_access

\* the terminal stages, and the place of each stage in the order of the pipeline
TerminalStages == {"Installed", "Failed", "AlreadyInstalled"}
Rank(st) ==
    CASE st = "Idle" -> 0
      [] st = "ResolveMetadata" -> 1
      [] st = "AwaitDownload" -> 2
      [] st = "Extracting" -> 3
      [] st = "PostInstall" -> 4
      [] OTHER -> 5

\* C20: the stage of a session only moves forward in the order Idle,
\* ResolveMetadata, AwaitDownload, Extracting, PostInstall, terminal; no step
\* takes it back to an earlier stage, and once it is terminal nothing of the
\* session acts any more: no fetch, no DownloadItem appended, no download
\* started, no helper, no launcher. Only a new request, made of a session
\* that is over, starts again from Idle.
C20_StageOnlyForward ==
    [][IF stage' = "Idle" /\ stage # "Idle"
       THEN stage \in TerminalStages /\ pc = "end"
       ELSE /\ Rank(stage') >= Rank(stage)
            /\ stage \in TerminalStages =>
                  UNCHANGED <<stage, status, fetched, pending, resolved, download_requests,
                              install_started, extracted, helper, ids, launchers, fs>>]_vars

\* C20 witness: a JetBrains session went through every stage and is Installed
C20_Witness ==
    /\ tool \in JetBrainsTools
    /\ Len(fetched) = 2
    /\ install_started = 1
    /\ extracted
    /\ obs.launched
    /\ stage = "Installed"
    /\ pc = "end"

\* the diagnostics of the session: the errors the installer logged and the
\* one _add_to_group logs in its worker when adduser fails
Diagnostics == Len(log) + Cardinality({i \in 1..Len(helper) : helper[i].result = "False"})

\* the session is over and did not install, nor find the tool installed
Aborted == SessionOver /\ stage \notin {"Installed", "AlreadyInstalled"}

\* C21: every session that ends otherwise than installed has emitted exactly
\* one diagnostic and has ended through UI.return_main_screen(status_code=1),
\* the group-helper failure and the NetBeans parse failures included.
C21_OneDiagnosticThenAbort ==
    Aborted =>
        /\ pc = "end" /\ raised = "none"
        /\ stage = "Failed" /\ status = 1
        /\ Diagnostics = 1

\* a failure was detected in the session: a transport error handed to a
\* continuation, an error logged, a helper that reported failure, an archive
\* that did not arrive or did not verify, an extraction that failed
FailureDetected ==
    \/ obs.err
    \/ log # <<>>
    \/ \E i \in 1..Len(helper) : helper[i].result = "False"
    \/ \E i \in 1..Len(obs.archive) :
          obs.archive[i].error \/ ~Verified(download_requests[i], obs.archive[i])
    \/ obs.unpacked = "failed"

JustDownloadButton ==
    LET js == {i \in 1..Len(obs.parsed) : obs.parsed[i].what = "JUST DOWNLOAD"}
    IN  obs.parsed[CHOOSE i \in js : TRUE].first

\* C23: the URL of Arduino's archive DownloadItem is the link of the
\* 'JUST DOWNLOAD' button resolved against the final URL of the fetched
\* download page (scheme and host of the final URL, then the root-relative
\* link), and its cookies are the cookies that came with that page.
C23_ArchiveItemCarriesRedirectAndCookies ==
    (tool = "Arduino" /\ download_requests # <<>>) =>
        /\ response # <<>>
        /\ response.final_url \in FinalUrls(scraped_download_url)
        /\ download_requests[1].url =
              SubSeq(response.final_url, 1, 2) \o JustDownloadButton.href
        /\ download_requests[1].cookies = response.cookies

\* C23 witness: the download page was redirected to another host and came
\* with a cookie, and the archive was requested
C23_Witness ==
    /\ tool = "Arduino"
    /\ install_started = 1
    /\ response # <<>>
    /\ response.final_url # scraped_download_url
    /\ response.cookies = "cookie1"
    /\ download_requests[1].url[2] = "//www.arduino.cc/"

FixedAlgorithm(t) == IF t \in JetBrainsTools THEN "sha256" ELSE "md5"

\* every DownloadItem of the session has a checksum of the tool's algorithm
ItemsCarryFixedChecksum ==
    \A i \in 1..Len(download_requests) :
        /\ download_requests[i].checksum # NoChecksum
        /\ download_requests[i].checksum.type = FixedAlgorithm(tool)

\* C25 as stated: whenever start_download_and_install has been called,
\* download_requests holds exactly one DownloadItem, with a checksum of the
\* algorithm fixed for the tool, also when the continuation of the resolver
\* runs again on the same installer object.
C25_OneItemWithFixedChecksum ==
    install_started > 0 =>
        /\ Len(download_requests) = 1
        /\ ItemsCarryFixedChecksum


\* C26 as stated: at the end of a session the notice to log out and in again
\* is in the queue if and only if the group helper ran in the session; it is
\* enqueued only once the launcher was created, and a session that ends in
\* Failed has none.
C26_NoticeIffHelperRan ==
    /\ SessionOver => (notices # <<>> <=> helper # <<>>)
    /\ notices # <<>> => obs.launched /\ ToolLauncher \in launchers
    /\ stage = "Failed" => notices = <<>>

\* C26 amended: the notice is enqueued only in a session in which the group
\* helper ran and succeeded (the user was not in the group), only once the
\* launcher was created, and with it the session is Installed; a session that
\* is Installed after the helper ran has the notice; a session that ends in
\* Failed has none, also when the helper ran in it.
C26_NoticeIffHelperRanAndInstalled ==
    /\ notices # <<>> =>
          /\ tool = "Arduino" /\ ~was_in_arduino_group
          /\ helper # <<>> /\ helper[1].result = "True"
          /\ obs.launched /\ ToolLauncher \in launchers
          /\ stage = "Installed"
          /\ Len(notices) = 1
    /\ (stage = "Installed" /\ helper # <<>>) => notices # <<>>
    /\ stage = "Failed" => notices = <<>>

\* C26 witness: the notice is in the queue of an Installed Arduino session
C26_Witness ==
    /\ tool = "Arduino"
    /\ notices # <<>>
    /\ helper # <<>>
    /\ stage = "Installed"
    /\ pc = "end"


\* C27 as stated: when the files.js handed to the NetBeans
\* parse_download_page_callback has no add_file line for the resolved version
\* and flavour, the callback logs that the download page changed its syntax or
\* is not parsable and aborts with status 1, without adding a DownloadItem and
\* without starting the download.
C27_NoAddFileLineAborts ==
    \A i \in 1..Len(obs.parsed) :
        (tool = "Netbeans" /\ obs.parsed[i].what = "add_file" /\ obs.parsed[i].n = 0) =>
            /\ stage = "Failed"
            /\ status = 1
            /\ pc = "end"
            /\ \E j \in 1..Len(log) :
                   log[j] = "The download page changed its syntax or is not parsable"
            /\ download_requests = <<>>
            /\ install_started = 0

\* the file name at the end of the download link scraped from the software page
ScrapedFileName == scraped_download_url[Len(scraped_download_url)]

\* C28 as stated: the digest attached to the Arduino archive request is the
\* one the checksums page lists for the archive file name of the scraped
\* download link, also when the page lists archives of several versions.
C28_DigestIsOfScrapedFile ==
    (tool = "Arduino" /\ download_requests # <<>>) =>
        <<download_requests[1].checksum.digest, ScrapedFileName>> \in ArduinoChecksumLines

\* C29 as stated: a session that ends in Failed leaves the membership of the
\* group as it was when the session started; the user has been added to
\* "dialout" by the session only if the session ends in Installed.
C29_FailedSessionLeavesGroup ==
    /\ stage = "Failed" => ((current_user \in dialout) <=> was_in_arduino_group)
    /\ (SessionOver /\ \E i \in 1..Len(helper) : helper[i].result = "True")
           => stage = "Installed"

\* the launcher that starts tool t from its own install path
LauncherOf(t) == [file |-> desktop_filename(t), exec |-> t]

\* C30 as stated: after any sequence of successful installs of distinct
\* tools, every installed tool still has a launcher whose exec path points
\* into its own install path.
C30_EveryInstalledToolKeepsLauncher ==
    \A t \in obs.installed : LauncherOf(t) \in launchers

====
